---- MODULE Spec2Model ----
(***************************************************************************)
(* A model of trolldb's connection manager (trolldb/database/mongodb.py,   *)
(* class MongoDB) and of the error values it reports through               *)
(* (trolldb/errors/errors.py, class ResponseError).                        *)
(*                                                                         *)
(* Python's None is the empty tuple <<>> and a set value x is <<x>>, so    *)
(* that an optional attribute is always a tuple.                           *)
(***************************************************************************)
EXTENDS Integers, Sequences, FiniteSets, TLC

\* ------------------------------------------------------------------ bounds
\* The number of motor clients one run may construct.
MaxClients == 2

\* Error values are combined while fewer than this many exist.
MaxErrors == 3

\* An error group declares at most this many error constants.
MaxFields == 2

\* ------------------------------------------------------- program constants
\* errno.EIO and errno.ENODATA (Linux values).
EIO == 5
ENODATA == 61

None == <<>>
Some(x) == <<x>>
Val(o) == o[1]

\* Python's truth value of an optional object: None is false; a
\* DatabaseConfig and an AsyncIOMotorClient (which define neither __bool__
\* nor __len__) are true, whether the client has been closed or not.
Truthy(o) == o # None

\* ---------------------------------------------------------- configurations
Urls == {"mongodb://localhost:28017", "mongodb://localhost:28018"}
Timeouts == {1000}
DbNames == {"mock_database"}
CollNames == {"mock_collection", "ghost"}

\* The values of DatabaseConfig.
Configs ==
  [url : Urls, timeout : Timeouts,
   main_database_name : DbNames, main_collection_name : CollNames]

\* The tasks of the event loop.  Under Spec only MainTask runs.
MainTask == "main"
Tasks == {"main", "other"}

\* ------------------------------------------------------------ error values
\* A ResponseError is its ordered dictionary: a sequence of entries, one per
\* status code, in insertion order.  A message is a string or a list of
\* strings; is_list tells which, msgs holds the string(s).
StrEntry(code, msg) == [code |-> code, is_list |-> FALSE, msgs |-> <<msg>>]
ListEntry(code, msgs) == [code |-> code, is_list |-> TRUE, msgs |-> msgs]

ResponseError(args_dict) == args_dict

\* The error constants of trolldb.database.errors used by MongoDB.
Client_AlreadyOpenError ==
  ResponseError(<<StrEntry(100, "already open")>>)
Client_InconsistencyError ==
  ResponseError(<<StrEntry(405, "inconsistency")>>)
Client_ReinitializeConfigError ==
  ResponseError(<<StrEntry(405, "cannot reinitialize with different configuration")>>)
Client_CloseNotAllowedError ==
  ResponseError(<<StrEntry(405, "close not allowed when nothing is open")>>)
Client_ConnectionError ==
  ResponseError(<<StrEntry(400, "could not connect")>>)
Databases_NotFoundError ==
  ResponseError(<<StrEntry(404, "database not found")>>)
Collections_NotFoundError ==
  ResponseError(<<StrEntry(404, "collection not found")>>)

\* An optional status code is None or Some(code).
Keys(err) == {err[i].code : i \in 1..Len(err)}
IndexOf(err, code) == CHOOSE i \in 1..Len(err) : err[i].code = code

Found(e) ==
  [kind |-> "ok", exc |-> "", code |-> e.code, is_list |-> e.is_list, msgs |-> e.msgs]
Raised(exc) ==
  [kind |-> "raise", exc |-> exc, code |-> 0, is_list |-> FALSE, msgs |-> <<>>]

\* ResponseError.__retrieve_one_from_some: the match on
\* (status_code, len(self.__dict)), case by case in the order of the code.
retrieve_one_from_some(err, status_code) ==
  IF status_code = None /\ Len(err) > 1
    THEN Raised("ValueError")
  ELSE IF status_code # None /\ Len(err) >= 1
    THEN IF Val(status_code) \in Keys(err)
           THEN Found([err[IndexOf(err, Val(status_code))] EXCEPT !.code = Val(status_code)])
           ELSE Raised("KeyError")
  ELSE IF Len(err) = 1
    THEN Found(err[1])
  ELSE Found(StrEntry(500, "Generic Response Error"))

\* The rendering of the extra information dictionary inside the f-string:
\* its keys and values in order.  A dictionary is a sequence of <<key, value>>.
RECURSIVE Render(_)
Render(extra) ==
  IF extra = <<>> THEN <<>>
  ELSE <<extra[1][1], extra[1][2]>> \o Render(Tail(extra))

\* ResponseError.get_error_details: the pair (status code, message text), the
\* text being the message followed by " :=> " and the rendered extra
\* information when that is given and not empty.  A text is the sequence of its
\* pieces.  Adding a string to a message that is a list is a TypeError.
get_error_details(err, extra_information, status_code) ==
  LET r == retrieve_one_from_some(err, status_code) IN
  IF r.kind = "raise" THEN [kind |-> "raise", exc |-> r.exc, code |-> 0, text |-> <<>>]
  ELSE IF r.is_list THEN [kind |-> "raise", exc |-> "TypeError", code |-> 0, text |-> <<>>]
  ELSE [kind |-> "ok", exc |-> "", code |-> r.code,
        text |-> r.msgs \o (IF extra_information # <<>>
                              THEN <<" :=> ">> \o Render(extra_information)
                              ELSE <<>>)]

\* What a call ends with: a normal return, SystemExit(code), or an exception.
Return == [kind |-> "return", code |-> 0, exc |-> ""]
Exit(code) == [kind |-> "exit", code |-> code, exc |-> "SystemExit"]
Raise(exc) == [kind |-> "raise", code |-> 0, exc |-> exc]

\* A log record.  The logger is handed the FIRST element of the pair that
\* get_error_details returns ("msg, _ = ..."), which is the status code.
LogRecord(level, details) ==
  [level |-> level, is_text |-> FALSE, code |-> details.code, text |-> <<>>]

\* ResponseError.log_as_warning: outcome of the call and the records logged.
log_as_warning(err, extra_information, status_code) ==
  LET d == get_error_details(err, extra_information, status_code) IN
  IF d.kind = "raise"
    THEN [outcome |-> Raise(d.exc), log |-> <<>>]
    ELSE [outcome |-> Return, log |-> <<LogRecord("warning", d)>>]

\* sys_exit_log leaving with its default exit code instead of the given one.
sys_exit_log_default_code(err, exit_code, extra_information, status_code) ==
  LET d == get_error_details(err, extra_information, status_code) IN
  IF d.kind = "raise"
    THEN [outcome |-> Raise(d.exc), log |-> <<>>]
    ELSE [outcome |-> Exit(-1), log |-> <<LogRecord("error", d)>>]

\* ResponseError.sys_exit_log: logs, then exit(exit_code).
sys_exit_log(err, exit_code, extra_information, status_code) ==
  LET d == get_error_details(err, extra_information, status_code) IN
  IF d.kind = "raise"
    THEN [outcome |-> Raise(d.exc), log |-> <<>>]
    ELSE [outcome |-> Exit(exit_code), log |-> <<LogRecord("error", d)>>]

\* ------------------------------------------------------------------- state
VARIABLES
  client,            \* MongoDB.__client: None or Some(client id)
  database_config,   \* MongoDB.__database_config: None or Some(config)
  main_database,     \* MongoDB.__main_database: None or Some(database handle)
  main_collection,   \* MongoDB.__main_collection: None or Some(collection handle)
  clients,           \* the motor clients constructed so far, by id
  reachable,         \* the URLs at which a server currently answers
  db_names,          \* the databases of the deployment
  coll_names,        \* the collections of each database
  pc,                \* where each task stands
  call,              \* the call each task is executing
  recent,            \* the last three completed calls
  lookup,            \* the get_database / get_collection call of each task
  scope,             \* the mongodb_context scope of each task
  errors,            \* the ResponseError objects constructed so far, by id
  heap,              \* the message lists (Python list objects) they refer to
  result             \* the result of the last query made on an error object

manager_vars == <<client, database_config, main_database, main_collection>>
server_vars == <<reachable, db_names, coll_names>>
ext_vars == <<lookup, scope, errors, heap, result>>
vars == <<client, database_config, main_database, main_collection, clients,
          reachable, db_names, coll_names, pc, call, recent,
          lookup, scope, errors, heap, result>>

\* The four class attributes of MongoDB, as one value.
Manager ==
  [client |-> client, database_config |-> database_config,
   main_database |-> main_database, main_collection |-> main_collection]

\* The class attributes as declared: all None.
InitManager ==
  [client |-> None, database_config |-> None,
   main_database |-> None, main_collection |-> None]

\* ------------------------------------------------------------- the driver
\* AsyncIOMotorClient(url, serverSelectionTimeoutMS=timeout): a reference, no
\* connection is made.  The new client gets the next id.
AsyncIOMotorClient(url, timeout) == [url |-> url, timeout |-> timeout, open |-> TRUE]

\* client.get_database(name) / client[name]: a handle, no server access.
get_database_handle(c, name) == [client |-> c, name |-> name]

\* database.get_collection(name) / database[name]: a handle, no server access.
get_collection_handle(db, name) ==
  [client |-> db.client, database |-> db.name, name |-> name]

\* Whether an operation of client c reaches a server.
ServerAnswers(c) == clients[c].url \in reachable

\* database.list_collection_names(): the collections of the database, none
\* when the database does not exist.
list_collection_names(db) ==
  IF db.name \in db_names THEN coll_names[db.name] ELSE {}

OpenClients == {c \in 1..Len(clients) : clients[c].open}

\* ---------------------------------------------------------------- calls
NoCall ==
  [op |-> "none", cfg |-> None, pre |-> InitManager, created |-> None,
   probe |-> "none", database_names |-> {}, listed |-> FALSE,
   collection_names |-> {}, log |-> <<>>]

NoRecord ==
  [op |-> "none", cfg |-> None, pre |-> InitManager, created |-> None,
   probe |-> "none", database_names |-> {}, listed |-> FALSE,
   collection_names |-> {}, log |-> <<>>,
   outcome |-> Return, post |-> InitManager]

\* What is kept of the calls before the last one.
Brief(r) == [op |-> r.op, cfg |-> r.cfg, outcome |-> r.outcome, post |-> r.post]

\* The record of a completed call c that ended with outcome o in state post.
Record(c, o, post) ==
  [op |-> c.op, cfg |-> c.cfg, pre |-> c.pre, created |-> c.created,
   probe |-> c.probe, database_names |-> c.database_names, listed |-> c.listed,
   collection_names |-> c.collection_names, log |-> c.log,
   outcome |-> o, post |-> post]

Push(r) == [prev2 |-> recent.prev, prev |-> Brief(recent.last), last |-> r]

\* Task t's call ends: it is recorded and the task is idle again.
Complete(t, c, o, post) ==
  /\ recent' = Push(Record(c, o, post))
  /\ pc' = [pc EXCEPT ![t] = "idle"]
  /\ call' = [call EXCEPT ![t] = NoCall]

\* initialize not looking at the database names it was given.
database_exists_unchecked(database_config_, database_names) == TRUE

\* The membership tests of initialize.
database_exists(database_config_, database_names) ==
  database_config_.main_database_name \in database_names

\* initialize not looking at the collection names it was given.
collection_exists_unchecked(database_config_, collection_names) == TRUE

collection_exists(database_config_, collection_names) ==
  database_config_.main_collection_name \in collection_names

\* No lookup in progress, no scope entered, no query made.
NoLookup ==
  [op |-> "none", database_name |-> None, collection_name |-> None,
   pre |-> InitManager, listed_databases |-> FALSE, database_names |-> {},
   listed_collections |-> FALSE, collection_names |-> {},
   asked |-> None, db |-> None, outcome |-> Return, handle |-> None]

NoScope ==
  [stage |-> "outside", cfg |-> None, opened |-> None, closes |-> 0,
   how |-> "none"]

NoResult ==
  [op |-> "none", error |-> 0, value |-> <<>>, extra_information |-> <<>>,
   status_code |-> None, exit_code |-> 0, group |-> <<>>, fields |-> <<>>,
   kind |-> "none", exc |-> "", code |-> 0, text |-> <<>>, descriptor |-> <<>>]

\* ------------------------------------------------------------------- Init
Init ==
  /\ client = None
  /\ database_config = None
  /\ main_database = None
  /\ main_collection = None
  /\ clients = <<>>
  /\ reachable = {"mongodb://localhost:28017"}
  /\ db_names = {"mock_database"}
  /\ coll_names = [d \in DbNames |->
                     IF d = "mock_database" THEN {"mock_collection"} ELSE {}]
  /\ pc = [t \in Tasks |-> IF t = MainTask THEN "idle" ELSE "off"]
  /\ call = [t \in Tasks |-> NoCall]
  /\ recent = [prev2 |-> Brief(NoRecord), prev |-> Brief(NoRecord), last |-> NoRecord]
  /\ lookup = [t \in Tasks |-> NoLookup]
  /\ scope = [t \in Tasks |-> NoScope]
  /\ errors = <<>>
  /\ heap = <<>>
  /\ result = NoResult

\* An initialize whose first check is of the client, not of the cached
\* configuration: with a client set it warns "already open" and returns.
InitializeBegin_checking_client(t, cfg) ==
  /\ pc[t] = "idle"
  /\ Len(clients) < MaxClients
  /\ LET c == [NoCall EXCEPT !.op = "initialize", !.cfg = Some(cfg), !.pre = Manager] IN
     IF Truthy(client)
       THEN LET r == log_as_warning(Client_AlreadyOpenError, <<>>, None)
            IN /\ Complete(t, [c EXCEPT !.log = r.log], r.outcome, Manager)
               /\ UNCHANGED <<manager_vars, clients, server_vars>>
       ELSE LET id == Len(clients) + 1 IN
            /\ clients' = Append(clients, AsyncIOMotorClient(cfg.url, cfg.timeout))
            /\ client' = Some(id)
            /\ call' = [call EXCEPT ![t] = [c EXCEPT !.created = Some(id)]]
            /\ pc' = [pc EXCEPT ![t] = "init_probe"]
            /\ UNCHANGED <<database_config, main_database, main_collection,
                           server_vars, recent>>

\* ------------------------------------------------------ MongoDB.initialize
\* initialize up to its first await: the check of the cached configuration,
\* the construction of the client and the call of list_database_names on it.
InitializeBegin(t, cfg) ==
  /\ pc[t] = "idle"
  /\ Len(clients) < MaxClients
  /\ LET c == [NoCall EXCEPT !.op = "initialize", !.cfg = Some(cfg), !.pre = Manager] IN
     IF Truthy(database_config)
       THEN LET r == IF cfg = Val(database_config)
                       THEN IF Truthy(client)
                              THEN log_as_warning(Client_AlreadyOpenError, <<>>, None)
                              ELSE sys_exit_log(Client_InconsistencyError, EIO, <<>>, None)
                       ELSE sys_exit_log(Client_ReinitializeConfigError, EIO, <<>>, None)
            IN /\ Complete(t, [c EXCEPT !.log = r.log], r.outcome, Manager)
               /\ UNCHANGED <<manager_vars, clients, server_vars>>
       ELSE LET id == Len(clients) + 1 IN
            /\ clients' = Append(clients, AsyncIOMotorClient(cfg.url, cfg.timeout))
            /\ client' = Some(id)
            /\ call' = [call EXCEPT ![t] = [c EXCEPT !.created = Some(id)]]
            /\ pc' = [pc EXCEPT ![t] = "init_probe"]
            /\ UNCHANGED <<database_config, main_database, main_collection,
                           server_vars, recent>>

\* initialize from the answer of list_database_names to its second await: the
\* fatal on a connection failure, the check of the database name, the caching
\* of the main database and the call of list_collection_names on it.
InitializeProbe(t) ==
  /\ pc[t] = "init_probe"
  /\ LET cfg == Val(call[t].cfg)
         probed == Val(call[t].created)
         err_extra_information == <<<<"database_name", cfg.main_database_name>>>>
     IN
     IF ~ServerAnswers(probed)
       THEN LET r == sys_exit_log(Client_ConnectionError, EIO,
                                  <<<<"url", cfg.url>>>>, None)
                c == [call[t] EXCEPT !.probe = "failed", !.log = r.log]
            IN /\ Complete(t, c, r.outcome, Manager)
               /\ UNCHANGED <<manager_vars, clients, server_vars>>
     ELSE IF ~database_exists(cfg, db_names)
       THEN LET r == sys_exit_log(Databases_NotFoundError, ENODATA,
                                  err_extra_information, None)
                c == [call[t] EXCEPT !.probe = "ok", !.database_names = db_names,
                                     !.log = r.log]
            IN /\ Complete(t, c, r.outcome, Manager)
               /\ UNCHANGED <<manager_vars, clients, server_vars>>
     ELSE /\ main_database' =
               Some(get_database_handle(Val(client), cfg.main_database_name))
          /\ call' = [call EXCEPT ![t] =
                        [@ EXCEPT !.probe = "ok", !.database_names = db_names]]
          /\ pc' = [pc EXCEPT ![t] = "init_listcoll"]
          /\ UNCHANGED <<client, database_config, main_collection, clients,
                         server_vars, recent>>

\* initialize from the answer of list_collection_names to its end: the check of
\* the collection name and the caching of the main collection.  The call was
\* made on the main database cached by the previous step; a server that stopped
\* answering in between makes it raise ServerSelectionTimeoutError, which
\* initialize does not catch.
InitializeListCollections(t) ==
  /\ pc[t] = "init_listcoll"
  /\ LET cfg == Val(call[t].cfg)
         asked == get_database_handle(Val(call[t].created), cfg.main_database_name)
         err_extra_information ==
           <<<<"database_name", cfg.main_database_name>>,
             <<"collection_name", cfg.main_collection_name>>>>
     IN
     IF ~ServerAnswers(asked.client)
       THEN /\ Complete(t, call[t], Raise("ServerSelectionTimeoutError"), Manager)
            /\ UNCHANGED <<manager_vars, clients, server_vars>>
     ELSE LET names == list_collection_names(asked)
              c == [call[t] EXCEPT !.listed = TRUE, !.collection_names = names]
          IN
          IF ~collection_exists(cfg, names)
            THEN LET r == sys_exit_log(Collections_NotFoundError, ENODATA,
                                       err_extra_information, None)
                 IN /\ Complete(t, [c EXCEPT !.log = r.log], r.outcome, Manager)
                    /\ UNCHANGED <<manager_vars, clients, server_vars>>
            ELSE LET h == get_collection_handle(Val(main_database),
                                                cfg.main_collection_name)
                 IN /\ main_collection' = Some(h)
                    /\ Complete(t, c, Return,
                                [Manager EXCEPT !.main_collection = Some(h)])
                    /\ UNCHANGED <<client, database_config, main_database,
                                   clients, server_vars>>

\* ----------------------------------------------------------- MongoDB.close
Close(t) ==
  /\ pc[t] = "idle"
  /\ LET c == [NoCall EXCEPT !.op = "close", !.pre = Manager] IN
     IF Truthy(client)
       THEN /\ database_config' = None
            /\ clients' = [clients EXCEPT ![Val(client)].open = FALSE]
            /\ Complete(t, c, Return, [Manager EXCEPT !.database_config = None])
            /\ UNCHANGED <<client, main_database, main_collection, server_vars>>
       ELSE LET r == sys_exit_log(Client_CloseNotAllowedError, EIO, <<>>, None)
            IN /\ Complete(t, [c EXCEPT !.log = r.log], r.outcome, Manager)
               /\ UNCHANGED <<manager_vars, clients, server_vars>>

\* ------------------------------------------------------------- the servers
\* A server starts or stops answering at a URL.
ServerToggle(u) ==
  /\ reachable' = IF u \in reachable THEN reachable \ {u} ELSE reachable \cup {u}
  /\ UNCHANGED <<manager_vars, clients, db_names, coll_names, pc, call, recent>>

\* Somebody creates a collection, and with it its database.
CreateCollection(d, c) ==
  /\ c \notin coll_names[d] \/ d \notin db_names
  /\ db_names' = db_names \cup {d}
  /\ coll_names' = [coll_names EXCEPT ![d] = @ \cup {c}]
  /\ UNCHANGED <<manager_vars, clients, reachable, pc, call, recent>>

\* Somebody drops a collection.
DropCollection(d, c) ==
  /\ c \in coll_names[d]
  /\ coll_names' = [coll_names EXCEPT ![d] = @ \ {c}]
  /\ UNCHANGED <<manager_vars, clients, reachable, db_names, pc, call, recent>>

\* Somebody drops a database.
DropDatabase(d) ==
  /\ d \in db_names
  /\ db_names' = db_names \ {d}
  /\ coll_names' = [coll_names EXCEPT ![d] = {}]
  /\ UNCHANGED <<manager_vars, clients, reachable, pc, call, recent>>

\* ------------------------------------------------------------- the system
Next ==
  \/ \E t \in Tasks, cfg \in Configs : InitializeBegin(t, cfg) /\ UNCHANGED ext_vars
  \/ \E t \in Tasks : InitializeProbe(t) /\ UNCHANGED ext_vars
  \/ \E t \in Tasks : InitializeListCollections(t) /\ UNCHANGED ext_vars
  \/ \E t \in Tasks : Close(t) /\ UNCHANGED ext_vars
  \/ \E u \in Urls : ServerToggle(u) /\ UNCHANGED ext_vars
  \/ \E d \in DbNames, c \in CollNames : CreateCollection(d, c) /\ UNCHANGED ext_vars
  \/ \E d \in DbNames, c \in CollNames : DropCollection(d, c) /\ UNCHANGED ext_vars
  \/ \E d \in DbNames : DropDatabase(d) /\ UNCHANGED ext_vars

\* One caller issuing initialize and close calls one after the other, against
\* servers that come and go.
Spec == Init /\ [][Next]_vars

TypeOK ==
  /\ client \in {None} \cup {Some(c) : c \in 1..Len(clients)}
  /\ database_config \in {None} \cup {Some(c) : c \in Configs}
  /\ Len(clients) <= MaxClients
  /\ reachable \subseteq Urls
  /\ db_names \subseteq DbNames
  /\ \A d \in DbNames : coll_names[d] \subseteq CollNames

\* ------------------------------------------------------------ properties
Last == recent.last
Prev == recent.prev
Prev2 == recent.prev2

Succeeded(r) == r.op = "initialize" /\ r.outcome.kind = "return"

\* C1: whenever initialize returns normally, the client MongoDB holds was
\* probed with list_database_names and answered, the configured main database
\* name was among the names returned, and the configured main collection name
\* was among the collection names listed for that database.
C1_FailFast ==
  Succeeded(Last) =>
    /\ Last.probe = "ok"
    /\ Last.created # None
    /\ Last.post.client = Last.created
    /\ Val(Last.cfg).main_database_name \in Last.database_names
    /\ Last.listed
    /\ Val(Last.cfg).main_collection_name \in Last.collection_names

C1_Witness ==
  /\ Succeeded(Last)
  /\ Last.probe = "ok"
  /\ Val(Last.cfg).main_collection_name \in Last.collection_names

\* C2: at any time at most one client constructed by initialize is open, that
\* is, constructed and not yet closed.
C2_AtMostOneOpenClient == Cardinality(OpenClients) <= 1

\* C3: an initialize(C) right after a successful initialize(C), with no close
\* in between, returns, logs the "already open" warning, constructs no client
\* and leaves the four attributes as the first call left them.
C3_SecondInitializeIsNoOp ==
  (Succeeded(Prev) /\ Last.op = "initialize" /\ Last.cfg = Prev.cfg) =>
    /\ Last.outcome = Return
    /\ \E i \in 1..Len(Last.log) : Last.log[i].level = "warning"
    /\ Last.created = None
    /\ Last.post = Prev.post

\* C4: an initialize(C') right after a successful initialize(C) with C' # C,
\* with no close in between, ends in SystemExit(errno.EIO) and replaces neither
\* the client nor the main database and main collection handles.
C4_ReinitializeIsFatal ==
  (Succeeded(Prev) /\ Last.op = "initialize" /\ Last.cfg # Prev.cfg) =>
    /\ Last.outcome = Exit(EIO)
    /\ Last.post.client = Prev.post.client
    /\ Last.post.main_database = Prev.post.main_database
    /\ Last.post.main_collection = Prev.post.main_collection

\* C5: close() in the initial state, before any initialize, ends in
\* SystemExit(errno.EIO) and changes none of the four attributes.
C5_CloseBeforeInitializeIsFatal ==
  (Last.op = "close" /\ Last.pre = InitManager) =>
    /\ Last.outcome = Exit(EIO)
    /\ Last.post = Last.pre

C5_Witness ==
  /\ Last.op = "close"
  /\ Last.pre = InitManager
  /\ Last.outcome.kind = "exit"

\* C6: a close() after a successful initialize closes the client's connection
\* and leaves the manager disconnected: the cached configuration is None and
\* the client is None.
C6_CloseDisconnects ==
  (Succeeded(Prev) /\ Last.op = "close") =>
    /\ ~clients[Val(Prev.post.client)].open
    /\ Last.post.database_config = None
    /\ Last.post.client = None

\* C7: after a successful initialize and one close(), a second close() with no
\* initialize in between ends in SystemExit(errno.EIO).
C7_SecondCloseIsFatal ==
  (Succeeded(Prev2) /\ Prev.op = "close" /\ Last.op = "close") =>
    Last.outcome = Exit(EIO)

\* C8: between completed calls, the client and the cached configuration are
\* both None or both set.
C8_ClientAndConfigTogether ==
  (\A t \in Tasks : pc[t] \in {"idle", "off"}) =>
    ((client = None) <=> (database_config = None))

\* C9: between completed calls, the main database and the main collection are
\* set exactly when a client is set, and they are handles of that client, which
\* is open.
C9_HandlesFollowClient ==
  (\A t \in Tasks : pc[t] \in {"idle", "off"}) =>
    /\ (main_database # None) <=> (client # None)
    /\ (main_collection # None) <=> (client # None)
    /\ main_database # None =>
         /\ Some(Val(main_database).client) = client
         /\ clients[Val(main_database).client].open
    /\ main_collection # None =>
         /\ Some(Val(main_collection).client) = client
         /\ clients[Val(main_collection).client].open

\* C10: after a successful initialize(C) the client is set, the cached
\* configuration is C, the main database is the current client's handle for
\* C.main_database_name and the main collection is that database's handle for
\* C.main_collection_name.
C10_InitializePostcondition ==
  Succeeded(Last) =>
    /\ Last.post.client # None
    /\ Last.post.database_config = Last.cfg
    /\ Last.post.main_database =
         Some(get_database_handle(Val(Last.post.client),
                                  Val(Last.cfg).main_database_name))
    /\ Last.post.main_collection =
         Some(get_collection_handle(Val(Last.post.main_database),
                                    Val(Last.cfg).main_collection_name))

\* C11: an initialize that constructed a client checks in this order and stops
\* at the first failure: a probe that fails ends in SystemExit(errno.EIO);
\* else a main database name missing from the names returned ends in
\* SystemExit(errno.ENODATA) with no collection names listed; else a main
\* collection name missing from the collection names listed ends in
\* SystemExit(errno.ENODATA) with the main collection handle not updated.
C11_ChecksInOrder ==
  (Last.op = "initialize" /\ Last.created # None) =>
    /\ Last.probe = "failed" =>
         /\ Last.outcome = Exit(EIO)
         /\ ~Last.listed
         /\ Last.post.main_database = Last.pre.main_database
         /\ Last.post.main_collection = Last.pre.main_collection
    /\ (Last.probe = "ok"
          /\ Val(Last.cfg).main_database_name \notin Last.database_names) =>
         /\ Last.outcome = Exit(ENODATA)
         /\ ~Last.listed
         /\ Last.post.main_database = Last.pre.main_database
         /\ Last.post.main_collection = Last.pre.main_collection
    /\ (Last.listed
          /\ Val(Last.cfg).main_collection_name \notin Last.collection_names) =>
         /\ Last.probe = "ok"
         /\ Val(Last.cfg).main_database_name \in Last.database_names
         /\ Last.outcome = Exit(ENODATA)
         /\ Last.post.main_collection = Last.pre.main_collection

C11_Witness ==
  /\ Last.op = "initialize"
  /\ Last.listed
  /\ Val(Last.cfg).main_collection_name \notin Last.collection_names
  /\ Last.outcome = Exit(ENODATA)
  /\ Prev.op = "initialize"
  /\ Prev.outcome = Exit(EIO)

\* C12: what the fatal path logs is the message text resolved by
\* get_error_details, extra information included, before the exit with the
\* given code: an initialize against a reachable database that lacks the
\* configured collection logs a text holding the database name and the
\* collection name and ends in SystemExit(errno.ENODATA).
C12_FatalLogsTheMessage ==
  (Last.op = "initialize" /\ Last.listed
     /\ Val(Last.cfg).main_collection_name \notin Last.collection_names) =>
    /\ Last.outcome = Exit(ENODATA)
    /\ \E i \in 1..Len(Last.log) :
         LET rec == Last.log[i]
             d == get_error_details(
                    Collections_NotFoundError,
                    <<<<"database_name", Val(Last.cfg).main_database_name>>,
                      <<"collection_name", Val(Last.cfg).main_collection_name>>>>,
                    None)
         IN /\ rec.level = "error"
            /\ rec.is_text
            /\ rec.text = d.text
            /\ \E j \in 1..Len(rec.text) :
                 rec.text[j] = Val(Last.cfg).main_database_name
            /\ \E j \in 1..Len(rec.text) :
                 rec.text[j] = Val(Last.cfg).main_collection_name

\* How an initialize on a manager never used before ends, given what its
\* client answered: the outcome of the first check that fails.
FreshOutcome(r) ==
  IF r.probe = "failed" THEN Exit(EIO)
  ELSE IF Val(r.cfg).main_database_name \notin r.database_names THEN Exit(ENODATA)
  ELSE IF ~r.listed THEN Raise("ServerSelectionTimeoutError")
  ELSE IF Val(r.cfg).main_collection_name \notin r.collection_names THEN Exit(ENODATA)
  ELSE Return

\* C26: after a successful initialize(C) and a close(), an initialize(C2), with
\* C2 equal to C or not, behaves as on a fresh manager: it constructs a new
\* client, logs no warning, ends as the answers of its own client decide (so it
\* succeeds when the server answers and holds the configured names) and on
\* success leaves the new, open client and its handles in the manager.
C26_ReopenAfterClose ==
  (/\ Succeeded(Prev2)
   /\ Prev.op = "close" /\ Prev.outcome = Return
   /\ Last.op = "initialize")
    => /\ Last.created # None
       /\ Last.created # Prev2.post.client
       /\ Last.probe # "none"
       /\ \A i \in 1..Len(Last.log) : Last.log[i].level # "warning"
       /\ Last.outcome = FreshOutcome(Last)
       /\ Succeeded(Last) =>
            /\ Last.post.client = Last.created
            /\ clients[Val(Last.created)].open
            /\ Val(Last.post.main_database).client = Val(Last.created)
            /\ Val(Last.post.main_collection).client = Val(Last.created)

\* A successful initialize(C), a close() and a successful initialize(C2) with
\* another configuration have happened, in this order.
C26_Witness ==
  /\ Succeeded(Prev2)
  /\ Prev.op = "close" /\ Prev.outcome = Return
  /\ Succeeded(Last)
  /\ Last.cfg # Prev2.cfg
  /\ Last.created # Prev2.post.client

\* ---------------------------------------------------------- mongodb_context
\* "async with mongodb_context(cfg)": the try block awaits initialize and then
\* yields to the body; the finally block calls close.  A scope is outside,
\* initializing, in its body, failed (initialize did not return) or left.
\* opened is the client constructed by the scope's initialize, closes counts
\* the close calls the scope made, how tells which way the scope was left.
StageAfter(t, pc_, outcome) ==
  IF pc_[t] # "idle" THEN "initializing"
  ELSE IF outcome.kind = "return" THEN "body"
  ELSE "failed"

\* Entering the scope: initialize up to its first await.
ContextEnter(t, cfg) ==
  /\ scope[t].stage \in {"outside", "left"}
  /\ InitializeBegin(t, cfg)
  /\ scope' = [scope EXCEPT ![t] =
                 [stage |-> StageAfter(t, pc', recent'.last.outcome),
                  cfg |-> Some(cfg), opened |-> call'[t].created,
                  closes |-> 0, how |-> "none"]]
  /\ UNCHANGED <<lookup, errors, heap, result>>

\* initialize goes on inside the try block.
ContextInitializeProbe(t) ==
  /\ scope[t].stage = "initializing"
  /\ InitializeProbe(t)
  /\ scope' = [scope EXCEPT ![t].stage = StageAfter(t, pc', recent'.last.outcome)]
  /\ UNCHANGED <<lookup, errors, heap, result>>

ContextInitializeListCollections(t) ==
  /\ scope[t].stage = "initializing"
  /\ InitializeListCollections(t)
  /\ scope' = [scope EXCEPT ![t].stage = StageAfter(t, pc', recent'.last.outcome)]
  /\ UNCHANGED <<lookup, errors, heap, result>>

\* The task is cancelled while initialize awaits the server: the await raises
\* CancelledError, which initialize does not catch.
ContextInterruptInitialize(t) ==
  /\ scope[t].stage = "initializing"
  /\ pc[t] \in {"init_probe", "init_listcoll"}
  /\ Complete(t, call[t], Raise("CancelledError"), Manager)
  /\ scope' = [scope EXCEPT ![t].stage = "failed"]
  /\ UNCHANGED <<manager_vars, clients, server_vars, lookup, errors, heap, result>>

\* The ways a scope in a given stage is left: the body returns, raises or is
\* interrupted; or initialize did not return.
ExitWays(stage) ==
  IF stage = "body" THEN {"return", "raise", "interrupt"}
  ELSE IF stage = "failed" THEN {"initialize"}
  ELSE {}

\* A context manager without the try/finally: close only after a body that
\* returned.
ContextExit_without_finally(t, how) ==
  /\ how \in ExitWays(scope[t].stage)
  /\ IF how = "return"
       THEN /\ Close(t)
            /\ scope' = [scope EXCEPT ![t].stage = "left", ![t].how = how,
                                      ![t].closes = @ + 1]
       ELSE /\ scope' = [scope EXCEPT ![t].stage = "left", ![t].how = how]
            /\ UNCHANGED <<manager_vars, clients, server_vars, pc, call, recent>>
  /\ UNCHANGED <<lookup, errors, heap, result>>

\* Leaving the scope: the finally block calls close, whichever way the try
\* block ended.
ContextExit(t, how) ==
  /\ how \in ExitWays(scope[t].stage)
  /\ Close(t)
  /\ scope' = [scope EXCEPT ![t].stage = "left", ![t].how = how,
                            ![t].closes = @ + 1]
  /\ UNCHANGED <<lookup, errors, heap, result>>

NextContext ==
  \/ \E t \in Tasks, cfg \in Configs : ContextEnter(t, cfg)
  \/ \E t \in Tasks : ContextInitializeProbe(t)
  \/ \E t \in Tasks : ContextInitializeListCollections(t)
  \/ \E t \in Tasks : ContextInterruptInitialize(t)
  \/ \E t \in Tasks, how \in {"return", "raise", "interrupt", "initialize"} :
       ContextExit(t, how)
  \/ \E u \in Urls : ServerToggle(u) /\ UNCHANGED ext_vars
  \/ \E d \in DbNames, c \in CollNames : CreateCollection(d, c) /\ UNCHANGED ext_vars
  \/ \E d \in DbNames, c \in CollNames : DropCollection(d, c) /\ UNCHANGED ext_vars
  \/ \E d \in DbNames : DropDatabase(d) /\ UNCHANGED ext_vars

\* One task entering and leaving mongodb_context scopes one after the other.
SpecContext == Init /\ [][NextContext]_vars

\* Two tasks on one event loop, both ready to enter a scope.
InitTwoTasks ==
  /\ client = None
  /\ database_config = None
  /\ main_database = None
  /\ main_collection = None
  /\ clients = <<>>
  /\ reachable = {"mongodb://localhost:28017"}
  /\ db_names = {"mock_database"}
  /\ coll_names = [d \in DbNames |->
                     IF d = "mock_database" THEN {"mock_collection"} ELSE {}]
  /\ pc = [t \in Tasks |-> "idle"]
  /\ call = [t \in Tasks |-> NoCall]
  /\ recent = [prev2 |-> Brief(NoRecord), prev |-> Brief(NoRecord), last |-> NoRecord]
  /\ lookup = [t \in Tasks |-> NoLookup]
  /\ scope = [t \in Tasks |-> NoScope]
  /\ errors = <<>>
  /\ heap = <<>>
  /\ result = NoResult

\* cfg is the configuration of every scope the other tasks have entered.
SameConfiguration(t, cfg) ==
  \A u \in Tasks \ {t} : scope[u].cfg # None => scope[u].cfg = Some(cfg)

NextTwoTasks ==
  \/ \E t \in Tasks, cfg \in Configs :
       SameConfiguration(t, cfg) /\ ContextEnter(t, cfg)
  \/ \E t \in Tasks : ContextInitializeProbe(t)
  \/ \E t \in Tasks : ContextInitializeListCollections(t)
  \/ \E t \in Tasks : ContextInterruptInitialize(t)
  \/ \E t \in Tasks, how \in {"return", "raise", "interrupt", "initialize"} :
       ContextExit(t, how)
  \/ \E u \in Urls : ServerToggle(u) /\ UNCHANGED ext_vars

\* Two tasks entering and leaving mongodb_context scopes of one configuration,
\* interleaved at the awaits of initialize and at the bodies.
SpecTwoTasks == InitTwoTasks /\ [][NextTwoTasks]_vars

\* C13: a scope is in its body only after its initialize(cfg) returned; a
\* scope makes no close call before it is left and exactly one when it is
\* left, whichever way (body returned, raised, was interrupted, or initialize
\* did not return); and once the scope is left the client it opened is closed.
C13_ScopeClosesOnEveryPath ==
  \A t \in Tasks :
    /\ scope[t].stage = "body" =>
         /\ Succeeded(Last) /\ Last.cfg = scope[t].cfg
         /\ scope[t].opened = Last.created
    /\ scope[t].stage \in {"initializing", "body", "failed"} =>
         scope[t].closes = 0
    /\ scope[t].stage = "left" =>
         /\ scope[t].closes = 1
         /\ Last.op = "close" /\ Last.outcome = Return
         /\ scope[t].opened # None
         /\ ~clients[Val(scope[t].opened)].open

C13_Witness ==
  /\ scope[MainTask].stage = "left"
  /\ scope[MainTask].how = "initialize"
  /\ Prev.op = "initialize" /\ Prev.outcome.kind = "exit"
  /\ scope[MainTask].closes = 1
  /\ ~clients[Val(scope[MainTask].opened)].open

\* --------------------------------------- MongoDB.get_database, get_collection
\* The names a caller passes: None or a string, which is all that DatabaseName
\* and CollectionName let through, unchanged.
DbArgs == {None} \cup {Some(d) : d \in DbNames \cup {"ghost_database", ""}}
CollArgs == {None} \cup {Some(c) : c \in CollNames \cup {""}}

lookup_frame ==
  <<client, database_config, main_database, main_collection, clients,
    reachable, db_names, coll_names, call, recent, scope, errors, heap, result>>

\* main_collection() handing out the main database.
MongoDB_main_collection_wrong == main_database

\* The accessors MongoDB.main_collection() and MongoDB.main_database().
MongoDB_main_collection == main_collection
MongoDB_main_database == main_database

\* get_collection taking a missing database name alone for "both None".
Shape_database_only(database_name, collection_name) ==
  IF database_name = None THEN "main"
  ELSE IF collection_name # None THEN "named"
  ELSE "mismatch"

\* The match of get_collection on (database_name, collection_name).
Shape(database_name, collection_name) ==
  IF database_name = None /\ collection_name = None THEN "main"
  ELSE IF database_name # None /\ collection_name # None THEN "named"
  ELSE "mismatch"

\* get_database taking every name as listed.
database_listed_unchecked(database_name, database_names) == TRUE

\* The guard "database_name in await cls.list_database_names()".
database_listed(database_name, database_names) ==
  Val(database_name) \in database_names

\* What a server operation of client c can come to: an answer, or a
\* ServerSelectionTimeoutError when no server answers at its URL; on a client
\* that was closed, depending on the driver's version, either of these or an
\* InvalidOperation.
Answers(c) ==
  {IF ServerAnswers(c) THEN "answer" ELSE "timeout"}
    \cup (IF clients[c].open THEN {} ELSE {"refused"})

DriverError(mode) ==
  IF mode = "refused" THEN Raise("InvalidOperation")
  ELSE Raise("ServerSelectionTimeoutError")

\* The lookup of task t ends with outcome o and, on a return, handle h.
LookupDone(t, l, o, h) ==
  /\ lookup' = [lookup EXCEPT ![t] = [l EXCEPT !.outcome = o, !.handle = h]]
  /\ pc' = [pc EXCEPT ![t] = "lookup_done"]

\* get_database from the answer of list_database_names on: the handle
\* cls.__client[database_name], or Databases.NotFoundError.
get_database_listed(l, mode) ==
  IF mode # "answer"
    THEN [l EXCEPT !.outcome = DriverError(mode)]
  ELSE IF database_listed(l.database_name, db_names)
    THEN [l EXCEPT !.listed_databases = TRUE, !.database_names = db_names,
                   !.outcome = Return,
                   !.db = Some(get_database_handle(Val(client), Val(l.database_name)))]
  ELSE [l EXCEPT !.listed_databases = TRUE, !.database_names = db_names,
                 !.outcome = Raise("Databases.NotFoundError")]

\* get_database up to its await: None gives the main database; a name makes
\* it call list_database_names on cls.__client.
GetDatabaseBegin(t, database_name) ==
  /\ pc[t] = "idle"
  /\ LET l == [NoLookup EXCEPT !.op = "get_database",
                               !.database_name = database_name, !.pre = Manager]
     IN IF database_name = None
          THEN LookupDone(t, l, Return, MongoDB_main_database)
        ELSE IF client = None
          THEN LookupDone(t, l, Raise("AttributeError"), None)
        ELSE /\ lookup' = [lookup EXCEPT ![t] = [l EXCEPT !.asked = client]]
             /\ pc' = [pc EXCEPT ![t] = "gd_list"]
  /\ UNCHANGED lookup_frame

GetDatabaseListed(t) ==
  /\ pc[t] = "gd_list"
  /\ \E mode \in Answers(Val(lookup[t].asked)) :
       LET l == get_database_listed(lookup[t], mode)
       IN LookupDone(t, l, l.outcome, l.db)
  /\ UNCHANGED lookup_frame

\* get_collection up to its first await: the match on the two names.
GetCollectionBegin(t, database_name, collection_name) ==
  /\ pc[t] = "idle"
  /\ LET l == [NoLookup EXCEPT !.op = "get_collection",
                               !.database_name = database_name,
                               !.collection_name = collection_name,
                               !.pre = Manager]
         shape == Shape(database_name, collection_name)
     IN IF shape = "main"
          THEN LookupDone(t, l, Return, MongoDB_main_collection)
        ELSE IF shape = "mismatch"
          THEN LookupDone(t, l, Raise("Collections.WrongTypeError"), None)
        ELSE IF client = None
          THEN LookupDone(t, l, Raise("AttributeError"), None)
        ELSE /\ lookup' = [lookup EXCEPT ![t] = [l EXCEPT !.asked = client]]
             /\ pc' = [pc EXCEPT ![t] = "gc_list_databases"]
  /\ UNCHANGED lookup_frame

\* get_collection from the end of its get_database call to its second await:
\* list_collection_names is called on the database handle.
GetCollectionDatabaseListed(t) ==
  /\ pc[t] = "gc_list_databases"
  /\ \E mode \in Answers(Val(lookup[t].asked)) :
       LET l == get_database_listed(lookup[t], mode)
       IN IF l.outcome = Return
            THEN /\ lookup' = [lookup EXCEPT ![t] = l]
                 /\ pc' = [pc EXCEPT ![t] = "gc_list_collections"]
            ELSE LookupDone(t, l, l.outcome, None)
  /\ UNCHANGED lookup_frame

\* get_collection from the answer of list_collection_names to its end.
GetCollectionCollectionsListed(t) ==
  /\ pc[t] = "gc_list_collections"
  /\ \E mode \in Answers(Val(lookup[t].db).client) :
       LET db == Val(lookup[t].db)
           names == list_collection_names(db)
           l == [lookup[t] EXCEPT !.listed_collections = TRUE,
                                  !.collection_names = names]
       IN IF mode # "answer"
            THEN LookupDone(t, lookup[t], DriverError(mode), None)
          ELSE IF Val(l.collection_name) \in names
            THEN LookupDone(t, l, Return,
                            Some(get_collection_handle(db, Val(l.collection_name))))
          ELSE LookupDone(t, l, Raise("Collections.NotFoundError"), None)
  /\ UNCHANGED lookup_frame

\* The caller has its result and goes on.
LookupReturn(t) ==
  /\ pc[t] = "lookup_done"
  /\ pc' = [pc EXCEPT ![t] = "idle"]
  /\ lookup' = [lookup EXCEPT ![t] = NoLookup]
  /\ UNCHANGED lookup_frame

\* The caller of Spec, who also looks databases and collections up; the
\* lookups are explored after at most two completed initialize or close calls.
NextLookup ==
  \/ Next
  \/ \E t \in Tasks, d \in DbArgs : Prev2.op = "none" /\ GetDatabaseBegin(t, d)
  \/ \E t \in Tasks : GetDatabaseListed(t)
  \/ \E t \in Tasks, d \in DbArgs, c \in CollArgs :
       Prev2.op = "none" /\ GetCollectionBegin(t, d, c)
  \/ \E t \in Tasks : GetCollectionDatabaseListed(t)
  \/ \E t \in Tasks : GetCollectionCollectionsListed(t)
  \/ \E t \in Tasks : LookupReturn(t)

SpecLookup == Init /\ [][NextLookup]_vars

\* A lookup of task t has just ended.
Looked(t, op) == pc[t] = "lookup_done" /\ lookup[t].op = op

C15_NoneGivesMainHandles ==
  \A t \in Tasks :
    /\ (Looked(t, "get_collection")
          /\ lookup[t].database_name = None /\ lookup[t].collection_name = None) =>
         /\ lookup[t].outcome = Return
         /\ lookup[t].handle = main_collection
         /\ lookup[t].asked = None
    /\ (Looked(t, "get_database") /\ lookup[t].database_name = None) =>
         /\ lookup[t].outcome = Return
         /\ lookup[t].handle = main_database
         /\ lookup[t].asked = None

C15_Witness ==
  /\ Looked(MainTask, "get_collection")
  /\ lookup[MainTask].database_name = None
  /\ lookup[MainTask].collection_name = None
  /\ lookup[MainTask].handle # None
  /\ lookup[MainTask].handle = main_collection

StrCell(code, str) == [code |-> code, is_list |-> FALSE, str |-> str, ref |-> 0]
ListCell(code, ref) == [code |-> code, is_list |-> TRUE, str |-> "", ref |-> ref]

\* The value of a dictionary of cells in heap hp: its entries.
RECURSIVE View(_, _)
View(dict, hp) ==
  IF dict = <<>> THEN <<>>
  ELSE <<IF dict[1].is_list
           THEN ListEntry(dict[1].code, hp[dict[1].ref])
           ELSE StrEntry(dict[1].code, dict[1].str)>>
       \o View(Tail(dict), hp)

\* _listify(item): the list itself (the same object) or a list of the string.
listify(cell, hp) == IF cell.is_list THEN hp[cell.ref] ELSE <<cell.str>>

\* The truth value of a message: a non-empty string or a non-empty list.
MessageTruthy(cell, hp) ==
  IF cell.is_list THEN hp[cell.ref] # <<>> ELSE cell.str # ""

\* Where code is in a dictionary of cells, 0 when it is not.
Position(dict, code) ==
  IF \E i \in 1..Len(dict) : dict[i].code = code
    THEN CHOOSE i \in 1..Len(dict) : dict[i].code = code
    ELSE 0

\* buff[key].extend(items) replacing the list instead of extending it.
extend_overwrite(list, items) == items

\* buff[key].extend(items).
extend(list, items) == list \o items

\* The body of the loop of __or__ for the i-th item of other and on:
\*   self_msg = buff.get(key, None)
\*   buff[key] = _listify(self_msg) if self_msg else []
\*   buff[key].extend(_listify(msg))
\* _listify hands back a list message as the same object, so that the list of
\* self is the one extended; a string makes a new list.
RECURSIVE or_loop(_, _, _, _)
or_loop(buff, hp, other, i) ==
  IF i > Len(other) THEN [dict |-> buff, heap |-> hp]
  ELSE
    LET key == other[i].code
        pos == Position(buff, key)
        keep == pos > 0 /\ MessageTruthy(buff[pos], hp)
        shared == keep /\ buff[pos].is_list
        ref == IF shared THEN buff[pos].ref ELSE Len(hp) + 1
        hp1 == IF shared THEN hp
               ELSE IF keep THEN Append(hp, <<buff[pos].str>>)
               ELSE Append(hp, <<>>)
        buff1 == IF pos > 0 THEN [buff EXCEPT ![pos] = ListCell(key, ref)]
                 ELSE Append(buff, ListCell(key, ref))
        hp2 == [hp1 EXCEPT ![ref] = extend(@, listify(other[i], hp1))]
    IN or_loop(buff1, hp2, other, i + 1)

\* ResponseError.__or__ on the dictionaries of self and other: buff starts as
\* a copy of self's dictionary, which shares self's lists.
or(self, other, hp) == or_loop(self, hp, other, 1)

\* ResponseError(args_dict) for a literal: its lists are new objects.
RECURSIVE construct(_, _)
construct(literal, hp) ==
  IF literal = <<>> THEN [dict |-> <<>>, heap |-> hp]
  ELSE LET e == literal[1]
           hp1 == IF e.is_list THEN Append(hp, e.msgs) ELSE hp
           cell == IF e.is_list THEN ListCell(e.code, Len(hp1))
                   ELSE StrCell(e.code, e.msgs[1])
           rest == construct(Tail(literal), hp1)
       IN [dict |-> <<cell>> \o rest.dict, heap |-> rest.heap]

\* The literals error values are constructed from: the dictionaries of at most
\* two entries over two status codes.
Codes == {400, 404}
Messages ==
  {StrEntry(0, "A"), StrEntry(0, "B"), StrEntry(0, ""), ListEntry(0, <<"A", "B">>)}
WithCode(m, code) == [m EXCEPT !.code = code]
Literals ==
  {<<>>}
    \cup {<<WithCode(m, c)>> : m \in Messages, c \in Codes}
    \cup {l \in {<<WithCode(m, c), WithCode(n, d)>> :
                   m \in Messages, n \in Messages, c \in Codes, d \in Codes} :
            l[1].code # l[2].code}

Object(dict, hp, left, right, left_before, right_before) ==
  [dict |-> dict, birth |-> View(dict, hp), left |-> left, right |-> right,
   left_before |-> left_before, right_before |-> right_before]

\* The value object i has now.
Value(i) == View(errors[i].dict, heap)

\* errors and hp after errors[i] | errors[j] has been evaluated.
Combined(errs, hp, i, j) ==
  LET r == or(errs[i].dict, errs[j].dict, hp)
  IN [errors |-> Append(errs, Object(r.dict, r.heap, i, j,
                                     View(errs[i].dict, hp),
                                     View(errs[j].dict, hp))),
      heap |-> r.heap]

errors_frame ==
  <<client, database_config, main_database, main_collection, clients,
    reachable, db_names, coll_names, pc, call, recent, lookup, scope>>

\* errors[i] | errors[j]
Or(i, j) ==
  /\ Len(errors) < MaxErrors
  /\ \E s \in {Combined(errors, heap, i, j)} :
       errors' = s.errors /\ heap' = s.heap
  /\ result' = NoResult
  /\ UNCHANGED errors_frame

\* (errors[i] | errors[j]) | errors[k] and errors[i] | (errors[j] | errors[k]),
\* evaluated one after the other, in either order.
Regroup(i, j, k, left_first) ==
  /\ Len(errors) < MaxErrors
  /\ \E n \in {Len(errors)} :
     \E s1 \in {IF left_first THEN Combined(errors, heap, i, j)
                 ELSE Combined(errors, heap, j, k)} :
     \E s2 \in {IF left_first THEN Combined(s1.errors, s1.heap, n + 1, k)
                 ELSE Combined(s1.errors, s1.heap, i, n + 1)} :
     \E s3 \in {IF left_first THEN Combined(s2.errors, s2.heap, j, k)
                 ELSE Combined(s2.errors, s2.heap, i, j)} :
     \E s4 \in {IF left_first THEN Combined(s3.errors, s3.heap, i, n + 3)
                 ELSE Combined(s3.errors, s3.heap, n + 3, k)} :
       errors' = s4.errors /\ heap' = s4.heap
  /\ result' = NoResult
  /\ UNCHANGED errors_frame

\* The arguments of get_error_details.
ExtraInformations == {<<>>, <<<<"database_name", "mock_database">>>>}
StatusCodes == {None} \cup {Some(c) : c \in Codes}

\* errors[i].get_error_details(extra_information, status_code)
GetErrorDetails(i, extra_information, status_code) ==
  /\ LET d == get_error_details(Value(i), extra_information, status_code)
     IN result' = [NoResult EXCEPT
                     !.op = "get_error_details", !.error = i, !.value = Value(i),
                     !.extra_information = extra_information,
                     !.status_code = status_code,
                     !.kind = d.kind, !.exc = d.exc, !.code = d.code,
                     !.text = d.text]
  /\ UNCHANGED <<errors, heap>>
  /\ UNCHANGED errors_frame

\* ResponseError.descriptor_delimiter
descriptor_delimiter == " |OR| "

\* The items one after the other with nothing between them.
RECURSIVE join_without_delimiter(_, _)
join_without_delimiter(delimiter, items) ==
  IF items = <<>> THEN ""
  ELSE items[1] \o join_without_delimiter(delimiter, Tail(items))

\* delimiter.join(items)
RECURSIVE join(_, _)
join(delimiter, items) ==
  IF items = <<>> THEN ""
  ELSE IF Len(items) = 1 THEN items[1]
  ELSE items[1] \o delimiter \o join(delimiter, Tail(items))

\* _stringify(item, delimiter) on an entry, whose msgs are _listify(item).
stringify(entry, delimiter) == join(delimiter, entry.msgs)

\* The keys of a Python dictionary: a string, or the object Literal[...] of the
\* typing module, which is equal to no string.
StrKey(s) == <<"str", s>>
LiteralKey(s) == <<"typing.Literal", s>>

\* ResponseError.fastapi_descriptor: for each item of the dictionary, the
\* status and a dictionary of the one key Literal["description"].
fastapi_descriptor(err) ==
  [i \in 1..Len(err) |->
     [status |-> err[i].code,
      fields |-> <<[key |-> LiteralKey("description"),
                    value |-> stringify(err[i], descriptor_delimiter)]>>]]

\* errors[i].fastapi_descriptor
FastapiDescriptor(i) ==
  /\ result' = [NoResult EXCEPT
                  !.op = "fastapi_descriptor", !.error = i, !.value = Value(i),
                  !.kind = "ok", !.descriptor = fastapi_descriptor(Value(i))]
  /\ UNCHANGED <<errors, heap>>
  /\ UNCHANGED errors_frame

\* The exit codes given to sys_exit_log.
ExitCodes == {EIO, ENODATA}

\* errors[i].sys_exit_log(exit_code, extra_information, status_code)
SysExitLog(i, exit_code, extra_information, status_code) ==
  /\ LET r == sys_exit_log(Value(i), exit_code, extra_information, status_code)
     IN result' = [NoResult EXCEPT
                     !.op = "sys_exit_log", !.error = i, !.value = Value(i),
                     !.extra_information = extra_information,
                     !.status_code = status_code, !.exit_code = exit_code,
                     !.kind = r.outcome.kind, !.exc = r.outcome.exc,
                     !.code = r.outcome.code]
  /\ UNCHANGED <<errors, heap>>
  /\ UNCHANGED errors_frame

\* ------------------------------------------------------ ResponsesErrorGroup
\* The __dict__ of a group class, in order: __module__, the attributes of the
\* class body, which are error constants here, and __doc__.
ErrorAttribute(i) == [is_error |-> TRUE, error |-> i]
OtherAttribute == [is_error |-> FALSE, error |-> 0]

\* The groups that declare some of the error values ids, at least one, each
\* under one name.
Groups(ids) ==
  {<<OtherAttribute>> \o [k \in 1..Len(f) |-> ErrorAttribute(f[k])]
                      \o <<OtherAttribute>> :
     f \in {g \in UNION {[1..m -> ids] : m \in 1..MaxFields} :
              \A a \in 1..Len(g), b \in 1..Len(g) : g[a] = g[b] => a = b}}

\* ResponsesErrorGroup.fields: the items of cls.__dict__ that are ResponseError
\* instances, in order.
RECURSIVE fields(_)
fields(cls_dict) ==
  IF cls_dict = <<>> THEN <<>>
  ELSE (IF cls_dict[1].is_error THEN <<cls_dict[1].error>> ELSE <<>>)
         \o fields(Tail(cls_dict))

\* The loop of union from the k-th field on: buff is the first field, then
\* buff | v for each further field v ("buff |= v" is buff = buff | v, the
\* class defining no __ior__).
RECURSIVE union_loop(_, _, _, _, _)
union_loop(errs, hp, buff, f, k) ==
  IF k > Len(f) THEN [errors |-> errs, heap |-> hp, buff |-> buff]
  ELSE IF buff = 0 THEN union_loop(errs, hp, f[k], f, k + 1)
  ELSE LET s == Combined(errs, hp, buff, f[k])
       IN union_loop(s.errors, s.heap, Len(s.errors), f, k + 1)

\* cls.union() of a group class with the given __dict__.
Union(cls_dict) ==
  /\ Len(errors) < MaxErrors
  /\ \E f \in {fields(cls_dict)} :
     \E s \in {union_loop(errors, heap, 0, f, 1)} :
       /\ errors' = s.errors
       /\ heap' = s.heap
       /\ result' = [NoResult EXCEPT
                       !.op = "union", !.group = cls_dict, !.fields = f,
                       !.error = s.buff, !.kind = "ok",
                       !.value = View(s.errors[s.buff].dict, s.heap)]
  /\ UNCHANGED errors_frame

\* Two error values constructed from literals, with a manager that is never
\* initialized.
InitErrors ==
  /\ client = None
  /\ database_config = None
  /\ main_database = None
  /\ main_collection = None
  /\ clients = <<>>
  /\ reachable = {}
  /\ db_names = {}
  /\ coll_names = [d \in DbNames |-> {}]
  /\ pc = [t \in Tasks |-> "off"]
  /\ call = [t \in Tasks |-> NoCall]
  /\ recent = [prev2 |-> Brief(NoRecord), prev |-> Brief(NoRecord), last |-> NoRecord]
  /\ lookup = [t \in Tasks |-> NoLookup]
  /\ scope = [t \in Tasks |-> NoScope]
  /\ result = NoResult
  /\ \E a \in Literals, b \in Literals :
       LET ca == construct(a, <<>>)
           cb == construct(b, ca.heap)
       IN /\ heap = cb.heap
          /\ errors = <<Object(ca.dict, ca.heap, 0, 0, <<>>, <<>>),
                        Object(cb.dict, cb.heap, 0, 0, <<>>, <<>>)>>

AllLiterals == \A i \in 1..Len(errors) : errors[i].left = 0

\* Regrouping is explored on values as constructed.  A query changes no error
\* value, so one query, of the value made last, is explored between two
\* combinations, while no more than MaxErrors values exist.
NextErrors ==
  \/ /\ Len(errors) < MaxErrors
     /\ \E i \in 1..Len(errors), j \in 1..Len(errors) : Or(i, j)
  \/ /\ Len(errors) < MaxErrors /\ AllLiterals
     /\ \E i \in 1..Len(errors), j \in 1..Len(errors), k \in 1..Len(errors),
           left_first \in BOOLEAN : Regroup(i, j, k, left_first)
  \/ /\ result.op = "none" /\ Len(errors) <= MaxErrors
     /\ \E x \in ExtraInformations, s \in StatusCodes :
          GetErrorDetails(Len(errors), x, s)
  \/ /\ result.op = "none" /\ Len(errors) <= MaxErrors
     /\ FastapiDescriptor(Len(errors))
  \/ /\ result.op = "none" /\ Len(errors) <= MaxErrors
     /\ \E e \in ExitCodes, s \in StatusCodes :
          SysExitLog(Len(errors), e, <<>>, s)
  \/ /\ Len(errors) < MaxErrors
     /\ \E cls_dict \in Groups(1..Len(errors)) : Union(cls_dict)

SpecErrors == InitErrors /\ [][NextErrors]_vars

\* ----------------------------------------------- properties of error values
\* The status codes of a value, in order, and the messages of one code.
CodeSeq(v) == [i \in 1..Len(v) |-> v[i].code]
MessagesAt(v, code) == IF code \in Keys(v) THEN v[IndexOf(v, code)].msgs ELSE <<>>

\* No message of the value is an empty string or an empty list.
NonEmptyMessages(v) ==
  \A i \in 1..Len(v) : v[i].msgs # <<>> /\ (~v[i].is_list => v[i].msgs[1] # "")

\* The codes of b that a does not have, in b's order.
NewCodes(a, b) ==
  LET IsNew(code) == code \notin Keys(a) IN SelectSeq(CodeSeq(b), IsNew)

\* Object n was made by a | b.
MadeByOr(n) == errors[n].left # 0

\* C17: for operands a and b whose messages are not empty, a | b has a's
\* status codes in a's order followed by the codes only b has in b's order,
\* and the messages of each code are a's messages of it followed by b's.
C17_OrderPreservingUnion ==
  \A n \in 1..Len(errors) :
    LET a == errors[n].left_before
        b == errors[n].right_before
        r == errors[n].birth
    IN (MadeByOr(n) /\ NonEmptyMessages(a) /\ NonEmptyMessages(b))
         => /\ CodeSeq(r) = CodeSeq(a) \o NewCodes(a, b)
            /\ \A code \in Keys(r) :
                 MessagesAt(r, code) = MessagesAt(a, code) \o MessagesAt(b, code)

\* {400: "A"} | {400: "B", 404: "B"} has been evaluated and has given
\* 400 -> A, B and 404 -> B.
C17_Witness ==
  \E n \in 1..Len(errors) :
    /\ MadeByOr(n)
    /\ errors[n].left_before = <<StrEntry(400, "A")>>
    /\ errors[n].right_before = <<StrEntry(400, "B"), StrEntry(404, "B")>>
    /\ CodeSeq(errors[n].birth) = <<400, 404>>
    /\ MessagesAt(errors[n].birth, 400) = <<"A", "B">>
    /\ MessagesAt(errors[n].birth, 404) = <<"B">>

\* C18: whatever has been combined since, every error value has the status
\* codes and the messages it had when it was constructed.
C18_ValuesAreImmutable ==
  \A i \in 1..Len(errors) : Value(i) = errors[i].birth

\* The same status codes in the same order, the same messages for each.
SameMessages(v, w) ==
  /\ CodeSeq(v) = CodeSeq(w)
  /\ \A code \in Keys(v) : MessagesAt(v, code) = MessagesAt(w, code)

\* Object n was constructed from a literal with the one entry code -> a
\* single string.
SingleMessage(n, code) ==
  /\ errors[n].left = 0
  /\ Len(errors[n].birth) = 1
  /\ errors[n].birth[1].code = code
  /\ ~errors[n].birth[1].is_list

\* C19: (a | b) | c and a | (b | c) have the same status codes in the same
\* order and the same messages for every code, and combining three
\* single-message errors of one status code gives one entry for that code with
\* the three messages in operand order.
C19_OrIsAssociative ==
  /\ \A p \in 1..Len(errors), q \in 1..Len(errors) :
       (/\ MadeByOr(p) /\ MadeByOr(errors[p].left)
        /\ MadeByOr(q) /\ MadeByOr(errors[q].right)
        /\ errors[errors[p].left].left = errors[q].left
        /\ errors[errors[p].left].right = errors[errors[q].right].left
        /\ errors[p].right = errors[errors[q].right].right)
         => SameMessages(errors[p].birth, errors[q].birth)
  /\ \A p \in 1..Len(errors), code \in Codes :
       (/\ MadeByOr(p) /\ MadeByOr(errors[p].left)
        /\ SingleMessage(errors[errors[p].left].left, code)
        /\ SingleMessage(errors[errors[p].left].right, code)
        /\ SingleMessage(errors[p].right, code))
         => /\ CodeSeq(errors[p].birth) = <<code>>
            /\ MessagesAt(errors[p].birth, code) =
                 errors[errors[errors[p].left].left].birth[1].msgs
                   \o errors[errors[errors[p].left].right].birth[1].msgs
                   \o errors[errors[p].right].birth[1].msgs

\* The text of the rendered extra information after a message.
Suffix(extra_information) ==
  IF extra_information # <<>> THEN <<" :=> ">> \o Render(extra_information) ELSE <<>>

\* C20: get_error_details with no status code returns the code and the message
\* of a value of one entry, raises ValueError on a value of several entries
\* and returns 500 and "Generic Response Error" on an empty value; the message
\* is followed by the rendered extra information when that is given.
C20_DetailsWithoutStatusCode ==
  (result.op = "get_error_details" /\ result.status_code = None)
    => /\ Len(result.value) = 1
            => /\ result.kind = "ok"
               /\ result.code = result.value[1].code
               /\ result.text =
                    result.value[1].msgs \o Suffix(result.extra_information)
       /\ Len(result.value) > 1
            => result.kind = "raise" /\ result.exc = "ValueError"
       /\ Len(result.value) = 0
            => /\ result.kind = "ok"
               /\ result.code = 500
               /\ result.text =
                    <<"Generic Response Error">> \o Suffix(result.extra_information)

\* C21: get_error_details with a status code that is not a key of the value,
\* whatever the number of entries of the value, raises KeyError and returns no
\* pair.
C21_AbsentStatusCodeIsKeyError ==
  (/\ result.op = "get_error_details"
   /\ result.status_code # None
   /\ Val(result.status_code) \notin Keys(result.value))
    => result.kind = "raise" /\ result.exc = "KeyError"

\* The messages m[1..n] with " |OR| " between each two of them.
RECURSIVE Joined(_, _)
Joined(m, n) ==
  IF n = 0 THEN ""
  ELSE IF n = 1 THEN m[1]
  ELSE Joined(m, n - 1) \o " |OR| " \o m[n]

C25_DescriptionIsTheOnlyField ==
  result.op = "fastapi_descriptor" =>
    \A i \in 1..Len(result.descriptor) :
      /\ Len(result.descriptor[i].fields) = 1
      /\ result.descriptor[i].fields[1].key = StrKey("description")
      /\ result.descriptor[i].fields[1].value =
           Joined(result.value[i].msgs, Len(result.value[i].msgs))

\* The status codes the first k of the values decl have, in the order of
\* their first appearance, and the messages they have for one code.
RECURSIVE FirstAppearance(_, _)
FirstAppearance(decl, k) ==
  IF k = 0 THEN <<>>
  ELSE LET before == FirstAppearance(decl, k - 1)
           IsNew(code) == \A i \in 1..Len(before) : before[i] # code
       IN before \o SelectSeq(CodeSeq(decl[k]), IsNew)

RECURSIVE DeclaredMessages(_, _, _)
DeclaredMessages(decl, k, code) ==
  IF k = 0 THEN <<>>
  ELSE DeclaredMessages(decl, k - 1, code) \o MessagesAt(decl[k], code)

\* The error constants of a group class, in declaration order.
Constants(cls_dict) ==
  LET IsError(a) == a.is_error
      attributes == SelectSeq(cls_dict, IsError)
  IN [k \in 1..Len(attributes) |-> attributes[k].error]

\* C23: for a group of the error constants e1, ..., eN, fields() is exactly
\* these constants in declaration order, and union() has the status codes of
\* the constants in the order of their first appearance, each code with every
\* message a constant declares for it, in declaration order.
C23_UnionOfTheGroup ==
  result.op = "union" =>
    LET decl == [k \in 1..Len(result.fields) |-> errors[result.fields[k]].birth]
    IN /\ result.fields = Constants(result.group)
       /\ CodeSeq(result.value) = FirstAppearance(decl, Len(decl))
       /\ \A code \in Keys(result.value) :
            MessagesAt(result.value, code) = DeclaredMessages(decl, Len(decl), code)

\* The literal mapping a value denotes: a code with one message maps to that
\* string, a code with several messages to their list.
Denoted(v) ==
  [i \in 1..Len(v) |->
     IF Len(v[i].msgs) = 1 THEN StrEntry(v[i].code, v[i].msgs[1])
     ELSE ListEntry(v[i].code, v[i].msgs)]

\* Object q was constructed from the literal mapping that v denotes, and still
\* has that value.
ConstructedFrom(q, v) ==
  /\ errors[q].left = 0
  /\ errors[q].birth = Denoted(v)
  /\ Value(q) = errors[q].birth

\* C24: a value obtained by | and the value constructed from the literal
\* mapping it denotes have the same fastapi_descriptor and, for every status
\* code of the mapping, the same result of get_error_details with that status
\* code.
C24_CombinedEqualsConstructed ==
  \A q \in 1..Len(errors) :
    (/\ result.op \in {"fastapi_descriptor", "get_error_details"}
     /\ MadeByOr(result.error)
     /\ ConstructedFrom(q, result.value))
      => /\ result.op = "fastapi_descriptor" =>
              result.descriptor = fastapi_descriptor(Value(q))
         /\ (/\ result.op = "get_error_details"
             /\ result.status_code # None
             /\ Val(result.status_code) \in Keys(result.value)) =>
              LET d == get_error_details(Value(q), result.extra_information,
                                         result.status_code)
              IN /\ result.kind = d.kind
                 /\ result.exc = d.exc
                 /\ result.code = d.code
                 /\ result.text = d.text

\* C27: every call of sys_exit_log, on any error value and with any arguments,
\* ends in SystemExit with the exit code it was given: it neither returns nor
\* raises another exception.
C27_SysExitLogAlwaysExits ==
  result.op = "sys_exit_log" =>
    /\ result.kind = "exit"
    /\ result.exc = "SystemExit"
    /\ result.code = result.exit_code

\* C28: with two tasks running mongodb_context scopes of the same
\* configuration, while the body of a scope is executing the client MongoDB
\* holds is open, and no close made by a scope exit ends in SystemExit.
C28_BodiesKeepAnOpenClient ==
  /\ \A t \in Tasks :
       scope[t].stage = "body" => (client # None /\ clients[Val(client)].open)
  /\ Last.op = "close" => Last.outcome = Return

====
